---------------------------- MODULE Spec2Model ----------------------------
(***************************************************************************)
(* csv-conductor (src/src/index.ts): sanitizeCsvValue, generateCSV and     *)
(* downloadCSV.                                                            *)
(*                                                                         *)
(* Text is a sequence of one-character strings, so that quoting, joining   *)
(* and line separators are positions that can be inspected.                *)
(* A JavaScript value is a tagged record: undefined, null, a number, a     *)
(* boolean, a string, or an array of strings (the "object" case of         *)
(* typeof).  A row is a function from field keys to values; a key that is  *)
(* absent and a key that holds undefined read the same (row[k]), and the   *)
(* code never enumerates a row's keys.                                     *)
(***************************************************************************)
EXTENDS Integers, Sequences, FiniteSets

VARIABLES
  call,      \* the pure entry point called: "none", "sanitizeCsvValue", "generateCSV"
  args,      \* its arguments
  ret,       \* whether it returned, and what: the text, for generateCSV also what each cell did
  pc,        \* downloadCSV: position in the async function
  env,       \* downloadCSV: the host environment of this call
  err,       \* downloadCSV: the value caught by the catch of the native path
  result,    \* downloadCSV: settlement of the returned promise
  nativeLog, \* downloadCSV: the native steps awaited, in order, each resolved (ok) or rejected
  dom        \* downloadCSV: object URL and anchor element bookkeeping

pureVars == <<call, args, ret>>
dlVars == <<pc, env, err, result, nativeLog, dom>>
vars == <<call, args, ret, pc, env, err, result, nativeLog, dom>>

---------------------------------------------------------------------------
(* Bounds *)

MaxLen == 4       \* longest string handed to sanitizeCsvValue directly
MaxRows == 2      \* most rows in a layout input of generateCSV
MaxHeaders == 2   \* most header labels in a layout input of generateCSV
MaxFields == 2    \* most entries of a fieldLabelMap

---------------------------------------------------------------------------
(* Text *)

QUOTE == "\""
COMMA == ","
NEWLINE == "\n"
BACKSLASH == "\\"

RECURSIVE Join(_, _)
\* Array.prototype.join: the elements with sep between neighbours, nothing
\* before the first or after the last; the empty array joins to ''.
Join(texts, sep) ==
  IF Len(texts) = 0 THEN <<>>
  ELSE IF Len(texts) = 1 THEN texts[1]
  ELSE texts[1] \o <<sep>> \o Join(Tail(texts), sep)

RECURSIVE SeqsUpTo(_, _)
SeqsUpTo(S, n) ==
  IF n = 0 THEN {<<>>}
  ELSE LET shorter == SeqsUpTo(S, n - 1)
       IN shorter \cup {Append(s, x) : s \in {t \in shorter : Len(t) = n - 1}, x \in S}

---------------------------------------------------------------------------
(* JavaScript values *)

Undefined == [t |-> "undefined"]
Null == [t |-> "null"]
Num(n) == [t |-> "num", n |-> n]
Bool(b) == [t |-> "bool", b |-> b]
Str(s) == [t |-> "str", s |-> s]
Arr(a) == [t |-> "arr", a |-> a]

\* value == null
IsNullish(v) == v.t \in {"undefined", "null"}

\* typeof v === 'object' && v !== null
IsObject(v) == v.t = "arr"

\* ToBoolean, as used by `v ? .. : ..`
Truthy(v) ==
  CASE v.t = "undefined" -> FALSE
    [] v.t = "null" -> FALSE
    [] v.t = "num" -> v.n # 0
    [] v.t = "bool" -> v.b
    [] v.t = "str" -> Len(v.s) > 0
    [] OTHER -> TRUE

Digit(d) == <<"0", "1", "2", "3", "4", "5", "6", "7", "8", "9">>[d + 1]

RECURSIVE NatToText(_)
NatToText(n) == IF n < 10 THEN <<Digit(n)>> ELSE NatToText(n \div 10) \o <<Digit(n % 10)>>

\* String(value)
StringOf(v) ==
  CASE v.t = "undefined" -> <<"u", "n", "d", "e", "f", "i", "n", "e", "d">>
    [] v.t = "null" -> <<"n", "u", "l", "l">>
    [] v.t = "num" -> IF v.n < 0 THEN <<"-">> \o NatToText(-v.n) ELSE NatToText(v.n)
    [] v.t = "bool" -> IF v.b THEN <<"t", "r", "u", "e">> ELSE <<"f", "a", "l", "s", "e">>
    [] v.t = "str" -> v.s
    [] OTHER -> Join(v.a, COMMA)

RECURSIVE JsonEscape(_)
JsonEscape(s) ==
  IF s = <<>> THEN <<>>
  ELSE (IF Head(s) \in {QUOTE, BACKSLASH} THEN <<BACKSLASH, Head(s)>> ELSE <<Head(s)>>)
       \o JsonEscape(Tail(s))

\* JSON.stringify of an array of strings
JsonStringify(v) ==
  <<"[">> \o Join([i \in 1..Len(v.a) |-> <<QUOTE>> \o JsonEscape(v.a[i]) \o <<QUOTE>>], COMMA)
  \o <<"]">>

---------------------------------------------------------------------------
(* sanitizeCsvValue *)

\* a replace that leaves the text as it is
KeepQuotes(s) == s

RECURSIVE DoubleQuotes(_)
\* .replace(/"/g, '""')
DoubleQuotes(s) ==
  IF s = <<>> THEN <<>>
  ELSE (IF Head(s) = QUOTE THEN <<QUOTE, QUOTE>> ELSE <<Head(s)>>) \o DoubleQuotes(Tail(s))

sanitizeCsvValue(value) ==
  IF IsNullish(value) THEN <<QUOTE, QUOTE>>
  ELSE <<QUOTE>> \o DoubleQuotes(StringOf(value)) \o <<QUOTE>>

---------------------------------------------------------------------------
(* generateCSV *)

\* row[fieldKey]
RowGet(row, fieldKey) == IF fieldKey \in DOMAIN row THEN row[fieldKey] ELSE Undefined

\* reverse[label] = fieldKey
Assign(reverse, label, fieldKey) ==
  [l \in DOMAIN reverse \cup {label} |-> IF l = label THEN fieldKey ELSE reverse[l]]

RECURSIVE BuildFrom(_, _, _)
BuildFrom(fieldLabelMap, i, reverse) ==
  IF i > Len(fieldLabelMap) THEN reverse
  ELSE BuildFrom(fieldLabelMap, i + 1,
                 Assign(reverse, fieldLabelMap[i].label, fieldLabelMap[i].key))

\* fieldLabelMap is the object's entries in Object.keys order (its keys are
\* distinct); the loop overwrites, so the key met last keeps the label.
buildLabelToFieldKeyMap(fieldLabelMap) == BuildFrom(fieldLabelMap, 1, <<>>)

\* a static entry that is a function of the row
StaticFn(f) == [t |-> "fn", f |-> f]

\* the caller's static functions
CallStatic(f, row) ==
  CASE f = "rowA" -> RowGet(row, "a")                        \* row => row.a
    [] OTHER -> Undefined

\* the caller's formatters
CallFormat(f, value, row) ==
  CASE f = "activeLabel" ->                                   \* v => v ? 'Active' : 'Inactive'
         IF Truthy(value) THEN Str(<<"A", "c", "t", "i", "v", "e">>)
         ELSE Str(<<"I", "n", "a", "c", "t", "i", "v", "e">>)
    [] f = "pairWithA" ->                                     \* (v, row) => [String(v), String(row.a)]
         Arr(<<StringOf(value), StringOf(RowGet(row, "a"))>>)
    [] f = "blank" -> Null                                    \* () => null
    [] OTHER -> value

\* `fieldKey ? row[fieldKey] : undefined`: the test is the key's truthiness
\* (a label that is not in the reverse map reads undefined; the empty
\* string is falsy).
FieldKeyUsable(labelToFieldKey, label) ==
  label \in DOMAIN labelToFieldKey /\ labelToFieldKey[label] # ""

\* Step A
FieldLookup(row, label, labelToFieldKey) ==
  IF FieldKeyUsable(labelToFieldKey, label) THEN RowGet(row, labelToFieldKey[label])
  ELSE Undefined

\* the guard of Step B
StaticApplies(rawValue, label, rules) ==
  rawValue = Undefined /\ label \in DOMAIN rules.staticByHeader

\* Step D left out
PrintableAsIs(formatted) == formatted

\* Step D: objects/arrays -> JSON string, primitives stay as-is
Printable(formatted) ==
  IF IsObject(formatted) THEN Str(JsonStringify(formatted)) ELSE formatted

\* Step C left out: the resolved value is emitted
FormattedUnformatted(rawValue, row, label, rules) == rawValue

\* Step C.  An entry of formatByHeader is a function, so `formatByHeader?.[label] ?`
\* asks whether the label has an entry (labels here are own keys of the rules
\* objects, not names inherited from Object.prototype).
Formatted(rawValue, row, label, rules) ==
  IF label \in DOMAIN rules.formatByHeader
  THEN CallFormat(rules.formatByHeader[label], rawValue, row)
  ELSE rawValue

\* One cell of the body: the callback of orderedHeaderLabels.map.  Besides
\* the cell's text the record keeps what the cell did: whether the static
\* entry was read, the arguments of each call of a static function and of a
\* formatter.
Cell(row, label, labelToFieldKey, rules) ==
  LET fieldValue == FieldLookup(row, label, labelToFieldKey)
      useStatic == StaticApplies(fieldValue, label, rules)
      staticVal == IF useStatic THEN rules.staticByHeader[label] ELSE Undefined
      callStatic == useStatic /\ staticVal.t = "fn"
      afterStatic == IF useStatic
                     THEN (IF callStatic THEN CallStatic(staticVal.f, row) ELSE staticVal)
                     ELSE fieldValue
      rawValue == IF IsNullish(afterStatic) THEN Str(<<>>) ELSE afterStatic
      hasFormat == label \in DOMAIN rules.formatByHeader
      formatted == Formatted(rawValue, row, label, rules)
  IN [text |-> sanitizeCsvValue(Printable(formatted)),
      fieldValue |-> fieldValue,
      staticRead |-> useStatic,
      staticCalls |-> IF callStatic THEN <<row>> ELSE <<>>,
      rawValue |-> rawValue,
      formatCalls |-> IF hasFormat THEN <<[value |-> rawValue, row |-> row]>> ELSE <<>>,
      formatted |-> formatted]

\* the body with a separator after every row
BodyTrailing(lines) == Join(lines, NEWLINE) \o (IF Len(lines) > 0 THEN <<NEWLINE>> ELSE <<>>)

\* rows.map(..).join('\n')
Body(lines) == Join(lines, NEWLINE)

generateCSV(rows, fieldLabelMap, orderedHeaderLabels, rules) ==
  LET labelToFieldKey == buildLabelToFieldKeyMap(fieldLabelMap)
      headerRow == Join([h \in 1..Len(orderedHeaderLabels) |->
                           sanitizeCsvValue(Str(orderedHeaderLabels[h]))], COMMA)
      cells == [r \in 1..Len(rows) |->
                  [h \in 1..Len(orderedHeaderLabels) |->
                     Cell(rows[r], orderedHeaderLabels[h], labelToFieldKey, rules)]]
      lines == [r \in 1..Len(rows) |->
                  Join([h \in 1..Len(orderedHeaderLabels) |-> cells[r][h].text], COMMA)]
  IN [text |-> headerRow \o <<NEWLINE>> \o Body(lines), cells |-> cells]

---------------------------------------------------------------------------
(* Inputs of the pure entry points *)

Chars == {"x", QUOTE, COMMA}

\* what sanitizeCsvValue is called with directly
EscapeValues ==
  {Undefined, Null, Num(0), Num(42), Num(-7), Bool(TRUE), Bool(FALSE),
   Arr(<< <<"x", QUOTE>>, <<QUOTE>> >>)}
  \cup {Str(s) : s \in SeqsUpTo(Chars, MaxLen)}

LabelA == <<"A">>
LabelQ == <<"Q", QUOTE>>
Labels == {LabelA, LabelQ}

Keys == {"", "a", "b"}

CellValues ==
  {Undefined, Null, Num(0), Bool(FALSE), Bool(TRUE), Str(<<>>), Str(<<"x", QUOTE>>),
   Arr(<< <<"x", QUOTE>>, <<"y">> >>)}

CellRows ==
  {[k \in Keys |-> IF k = "a" THEN v ELSE IF k = "" THEN w ELSE u] :
     v \in CellValues, w \in {Undefined, Num(0)}, u \in {Undefined, Bool(TRUE)}}

\* every object of at most MaxFields entries over Keys and Labels, in Object.keys order
FieldLabelMaps ==
  {m \in SeqsUpTo([key : Keys, label : Labels], MaxFields) :
     \A i, j \in DOMAIN m : i # j => m[i].key # m[j].key}

StaticEntries == {Str(<<"S">>), StaticFn("rowA")}
Formatters == {"activeLabel", "pairWithA", "blank"}

\* rules that are absent, or whose staticByHeader / formatByHeader is absent,
\* read like empty objects: `rules?.staticByHeader && ..`, `rules?.formatByHeader?.[label]`
NoEntries == [l \in {} |-> Undefined]
RulesFor(label) ==
  {[staticByHeader |-> st, formatByHeader |-> fm] :
     st \in {NoEntries} \cup {[l \in {label} |-> e] : e \in StaticEntries},
     fm \in {NoEntries} \cup {[l \in {label} |-> f] : f \in Formatters}}

\* the arguments of one call of generateCSV
GenerateInput(rows, fieldLabelMap, orderedHeaderLabels, rules) ==
  [rows |-> rows, fieldLabelMap |-> fieldLabelMap,
   orderedHeaderLabels |-> orderedHeaderLabels, rules |-> rules]

LayoutRows ==
  {[k \in Keys |-> IF k = "a" THEN v ELSE Undefined] :
     v \in {Undefined, Str(<<"x", QUOTE>>), Arr(<< <<"y">> >>)}}

LayoutMaps ==
  {<<>>, <<[key |-> "a", label |-> LabelA]>>,
   <<[key |-> "a", label |-> LabelA], [key |-> "", label |-> LabelQ]>>}

LayoutRules ==
  {[staticByHeader |-> NoEntries, formatByHeader |-> NoEntries],
   [staticByHeader |-> [l \in Labels |-> IF l = LabelA THEN Str(<<"S">>) ELSE StaticFn("rowA")],
    formatByHeader |-> [l \in {LabelQ} |-> "pairWithA"]]}

FirstName == <<"F", "i", "r", "s", "t", " ", "N", "a", "m", "e">>
Country == <<"C", "o", "u", "n", "t", "r", "y">>
Status == <<"S", "t", "a", "t", "u", "s">>

\* the documented call
QuickStart ==
  [rows |-> << [k \in {"first_name", "active"} |->
                  IF k = "first_name" THEN Str(<<"A", "d", "a">>) ELSE Bool(TRUE)] >>,
   fieldLabelMap |-> <<[key |-> "first_name", label |-> FirstName],
                       [key |-> "active", label |-> Status]>>,
   orderedHeaderLabels |-> <<FirstName, Country, Status>>,
   rules |-> [staticByHeader |-> [l \in {Country} |-> Str(<<"U", "S", "A">>)],
              formatByHeader |-> [l \in {Status} |-> "activeLabel"]]]

---------------------------------------------------------------------------
(* The pure entry points as operations *)

NoArgs == [t |-> "none"]

\* no pure function is being called
InitIdle == call = "none" /\ args = NoArgs /\ ret = [returned |-> FALSE]

\* A behaviour of the pure functions is one call, its arguments drawn here.
\* generateCSV is called with one row and one column (every field value
\* against every map and rule), with up to MaxRows rows and MaxHeaders
\* columns, or as documented.
InitCall ==
  /\ ret = [returned |-> FALSE]
  /\ \/ call = "sanitizeCsvValue" /\ args \in EscapeValues
     \/ /\ call = "generateCSV"
        /\ \/ \E label \in Labels, row \in CellRows, m \in FieldLabelMaps :
                \E ru \in RulesFor(label) : args = GenerateInput(<<row>>, m, <<label>>, ru)
           \/ \E rs \in SeqsUpTo(LayoutRows, MaxRows), hs \in SeqsUpTo(Labels, MaxHeaders),
                 m \in LayoutMaps, ru \in LayoutRules :
                args = GenerateInput(rs, m, hs, ru)
           \/ args = QuickStart

NoError == [name |-> "", message |-> "absent"]

NoDom == [attempts |-> 0, done |-> <<>>, threw |-> FALSE, url |-> "none",
          anchor |-> "none", clicks |-> 0]

InitDownload ==
  /\ pc = "idle"
  /\ env = [hasPicker |-> FALSE]
  /\ err = NoError
  /\ result = "none"
  /\ nativeLog = <<>>
  /\ dom = NoDom

Init == InitCall /\ InitDownload

Sanitize ==
  /\ call = "sanitizeCsvValue"
  /\ ~ret.returned
  /\ ret' = [returned |-> TRUE, text |-> sanitizeCsvValue(args)]
  /\ UNCHANGED <<call, args>>
  /\ UNCHANGED dlVars

Generate ==
  /\ call = "generateCSV"
  /\ ~ret.returned
  /\ ret' = [returned |-> TRUE,
             out |-> generateCSV(args.rows, args.fieldLabelMap, args.orderedHeaderLabels,
                                 args.rules)]
  /\ UNCHANGED <<call, args>>
  /\ UNCHANGED dlVars

Next == Sanitize \/ Generate

Spec == Init /\ [][Next]_vars

---------------------------------------------------------------------------
(* downloadCSV *)
(* The Blob constructor, which the function requires of its host, is taken *)
(* to be present; the save picker, the object-URL factory and the document  *)
(* may each be missing or fail, which shows as the step that uses them      *)
(* throwing.                                                               *)

\* the awaited calls of the native path, in order
NativeSteps == <<"showSaveFilePicker", "createWritable", "write", "close">>

\* the statements of the fallback's try block, in order ("configure" is the
\* assignments to the anchor's href, download, rel and style)
FallbackSteps ==
  <<"createObjectURL", "createElement", "configure", "appendChild", "click",
    "removeChild", "revokeObjectURL">>

IndexOf(steps, step) == CHOOSE i \in DOMAIN steps : steps[i] = step
InSeq(steps, step) == \E i \in DOMAIN steps : steps[i] = step

\* What a native step can throw, as the catch reads it: `error?.name || ''`
\* ("" also stands for a thrown null, undefined or primitive) and
\* error?.message, which is absent, a string that holds 'user gesture', a
\* string that does not, or a value that is not a string (a number).
ErrorNames == {"", "AbortError", "NotAllowedError", "SecurityError"}
ErrorMessages == {"absent", "gesture", "other", "nonstring"}
ErrorValues == [name : ErrorNames, message : ErrorMessages]

\* a catch that takes only AbortError for the user's decision
CatchOutcomeAbortOnly(error) == IF error.name = "AbortError" THEN "cancel" ELSE "fallback"

\* The catch of the native path.  `error?.message?.includes('user gesture')`
\* is evaluated only when name is 'NotAllowedError': an absent message gives
\* undefined, a string gives the test, and a number has no includes method,
\* so the call throws a TypeError out of the catch block.
CatchOutcome(error) ==
  IF error.name = "AbortError" THEN "cancel"
  ELSE IF error.name = "NotAllowedError"
       THEN CASE error.message = "gesture" -> "cancel"
              [] error.message = "nonstring" -> "throw"
              [] OTHER -> "fallback"
  ELSE "fallback"

\* a fallback catch that reports success
FallbackCaughtTrue == "true"

\* the fallback's catch: return false
FallbackCaught == "false"

\* entering the fallback's try block
EnterFallback ==
  /\ pc' = FallbackSteps[1]
  /\ dom' = [dom EXCEPT !.attempts = @ + 1]

\* the call: the capability test `typeof anyNav.showSaveFilePicker === 'function'`
Start(hasPicker) ==
  /\ pc = "idle"
  /\ env' = [hasPicker |-> hasPicker]
  /\ result' = "pending"
  /\ IF hasPicker
     THEN pc' = NativeSteps[1] /\ UNCHANGED dom
     ELSE EnterFallback
  /\ UNCHANGED <<err, nativeLog>>
  /\ UNCHANGED pureVars

\* an awaited native call resolves; after close the function returns true
NativeOk ==
  /\ InSeq(NativeSteps, pc)
  /\ nativeLog' = Append(nativeLog, [step |-> pc, ok |-> TRUE])
  /\ IF pc = "close"
     THEN pc' = "done" /\ result' = "true"
     ELSE pc' = NativeSteps[IndexOf(NativeSteps, pc) + 1] /\ UNCHANGED result
  /\ UNCHANGED <<env, err, dom>>
  /\ UNCHANGED pureVars

\* an awaited native call rejects
NativeThrow(error) ==
  /\ InSeq(NativeSteps, pc)
  /\ nativeLog' = Append(nativeLog, [step |-> pc, ok |-> FALSE])
  /\ err' = error
  /\ pc' = "catch"
  /\ UNCHANGED <<env, result, dom>>
  /\ UNCHANGED pureVars

Catch ==
  /\ pc = "catch"
  /\ CASE CatchOutcome(err) = "cancel" -> pc' = "done" /\ result' = "false" /\ UNCHANGED dom
       [] CatchOutcome(err) = "throw" -> pc' = "done" /\ result' = "rejected" /\ UNCHANGED dom
       [] OTHER -> EnterFallback /\ UNCHANGED result
  /\ UNCHANGED <<env, err, nativeLog>>
  /\ UNCHANGED pureVars

\* what a statement of the fallback does to the object URL and the anchor
FallbackEffect(d, step) ==
  CASE step = "createObjectURL" -> [d EXCEPT !.url = "live"]
    [] step = "createElement" -> [d EXCEPT !.anchor = "created"]
    [] step = "appendChild" -> [d EXCEPT !.anchor = "attached"]
    [] step = "click" -> [d EXCEPT !.clicks = @ + 1]
    [] step = "removeChild" -> [d EXCEPT !.anchor = "removed"]
    [] step = "revokeObjectURL" -> [d EXCEPT !.url = "revoked"]
    [] OTHER -> d

\* a statement of the fallback completes; after the last one the function returns true
FallbackOk ==
  /\ InSeq(FallbackSteps, pc)
  /\ dom' = [FallbackEffect(dom, pc) EXCEPT !.done = Append(@, pc)]
  /\ IF pc = "revokeObjectURL"
     THEN pc' = "done" /\ result' = "true"
     ELSE pc' = FallbackSteps[IndexOf(FallbackSteps, pc) + 1] /\ UNCHANGED result
  /\ UNCHANGED <<env, err, nativeLog>>
  /\ UNCHANGED pureVars

\* a statement of the fallback throws: the catch logs and returns false
FallbackThrow ==
  /\ InSeq(FallbackSteps, pc)
  /\ dom' = [dom EXCEPT !.threw = TRUE]
  /\ pc' = "done"
  /\ result' = FallbackCaught
  /\ UNCHANGED <<env, err, nativeLog>>
  /\ UNCHANGED pureVars

NextDownload ==
  \/ \E hasPicker \in BOOLEAN : Start(hasPicker)
  \/ NativeOk
  \/ \E error \in ErrorValues : NativeThrow(error)
  \/ Catch
  \/ FallbackOk
  \/ FallbackThrow

InitDownloadOnly == InitIdle /\ InitDownload

SpecDownload == InitDownloadOnly /\ [][NextDownload]_vars

---------------------------------------------------------------------------
(* Properties of sanitizeCsvValue and generateCSV *)

RECURSIVE QuotesPaired(_)
\* every quote of s stands in an adjacent pair: no standalone quote
QuotesPaired(s) ==
  IF s = <<>> THEN TRUE
  ELSE IF Head(s) # QUOTE THEN QuotesPaired(Tail(s))
  ELSE Len(s) >= 2 /\ s[2] = QUOTE /\ QuotesPaired(Tail(Tail(s)))

CountQuotes(s) == Cardinality({i \in DOMAIN s : s[i] = QUOTE})

Interior(cell) == SubSeq(cell, 2, Len(cell) - 1)

WellQuoted(cell) ==
  /\ Len(cell) >= 2
  /\ cell[1] = QUOTE
  /\ cell[Len(cell)] = QUOTE
  /\ QuotesPaired(Interior(cell))

RECURSIVE Interleave(_, _)
\* the texts in order with sep between neighbours, built from the last one
Interleave(texts, sep) ==
  IF Len(texts) = 0 THEN <<>>
  ELSE IF Len(texts) = 1 THEN texts[1]
  ELSE Interleave(SubSeq(texts, 1, Len(texts) - 1), sep) \o <<sep>> \o texts[Len(texts)]

RECURSIVE SumLen(_, _)
\* total length of lines 1..n, each followed by one separator
SumLen(lines, n) == IF n = 0 THEN 0 ELSE SumLen(lines, n - 1) + Len(lines[n]) + 1

Sanitized == call = "sanitizeCsvValue" /\ ret.returned

Generated == call = "generateCSV" /\ ret.returned

CellsOf == {<<r, h>> : r \in 1..Len(args.rows), h \in 1..Len(args.orderedHeaderLabels)}

\* C3: sanitizeCsvValue(v) begins and ends with the quote character, every
\* quote of String(v) appears doubled in its interior (no standalone quote),
\* null and undefined give exactly "", and every cell generateCSV emits is
\* quoted in this way whatever it contains.
C3_EscapeQuoted ==
  /\ Sanitized =>
       /\ WellQuoted(ret.text)
       /\ IsNullish(args) => ret.text = <<QUOTE, QUOTE>>
       /\ ~IsNullish(args) =>
            /\ Len(Interior(ret.text)) = Len(StringOf(args)) + CountQuotes(StringOf(args))
            /\ CountQuotes(Interior(ret.text)) = 2 * CountQuotes(StringOf(args))
  /\ Generated => \A c \in CellsOf : WellQuoted(ret.out.cells[c[1]][c[2]].text)

\* a string holding a quote and a delimiter was escaped
C3_Witness ==
  /\ Sanitized
  /\ args.t = "str"
  /\ \E i, j \in DOMAIN args.s : args.s[i] = QUOTE /\ args.s[j] = COMMA
  /\ Len(ret.text) = Len(args.s) + 2 + CountQuotes(args.s)

\* C2: the result is the header line (escaped labels in header order,
\* joined by ','), one '\n', then one line per row in input order (cells in
\* header order joined by ','), the row lines separated by '\n': nothing
\* follows the last row, and with no rows the result is the header line
\* followed by one '\n'.
C2_Layout ==
  Generated =>
    LET hs == args.orderedHeaderLabels
        n == Len(args.rows)
        reverse == buildLabelToFieldKeyMap(args.fieldLabelMap)
        header == Interleave([h \in 1..Len(hs) |-> sanitizeCsvValue(Str(hs[h]))], COMMA)
        lines == [r \in 1..n |->
                    Interleave([h \in 1..Len(hs) |->
                                  Cell(args.rows[r], hs[h], reverse, args.rules).text], COMMA)]
        start(r) == Len(header) + 1 + SumLen(lines, r - 1)
    IN /\ SubSeq(ret.out.text, 1, Len(header)) = header
       /\ Len(ret.out.text) > Len(header)
       /\ ret.out.text[Len(header) + 1] = NEWLINE
       /\ \A r \in 1..n :
            /\ SubSeq(ret.out.text, start(r) + 1, start(r) + Len(lines[r])) = lines[r]
            /\ r < n => ret.out.text[start(r) + Len(lines[r]) + 1] = NEWLINE
       /\ Len(ret.out.text) = IF n = 0 THEN Len(header) + 1 ELSE start(n) + Len(lines[n])

\* two different rows under two different columns were laid out
C2_Witness ==
  /\ Generated
  /\ Len(args.rows) >= 2
  /\ Len(args.orderedHeaderLabels) >= 2
  /\ args.rows[1] # args.rows[2]
  /\ args.orderedHeaderLabels[1] # args.orderedHeaderLabels[2]
  /\ ret.out.text[Len(ret.out.text)] = QUOTE

Quoted(s) == <<QUOTE>> \o s \o <<QUOTE>>

QuickStartLines ==
  Quoted(FirstName) \o <<COMMA>> \o Quoted(Country) \o <<COMMA>> \o Quoted(Status)
  \o <<NEWLINE>>
  \o Quoted(<<"A", "d", "a">>) \o <<COMMA>> \o Quoted(<<"U", "S", "A">>) \o <<COMMA>>
  \o Quoted(<<"A", "c", "t", "i", "v", "e">>)

\* C4 as stated: the documented call returns the header line, '\n', the
\* data line and a '\n' after the data line.
C4_DocumentedOutput ==
  (Generated /\ args = QuickStart) => ret.out.text = QuickStartLines \o <<NEWLINE>>

\* C4, amended: the documented call returns the header line, '\n' and the
\* data line, with no '\n' after the data line.
C4_DocumentedOutputAmended ==
  (Generated /\ args = QuickStart) => ret.out.text = QuickStartLines

\* the documented call was made
C4_Witness ==
  /\ Generated
  /\ args = QuickStart
  /\ Len(ret.out.cells) = 1
  /\ ret.out.cells[1][2].staticRead
  /\ Len(ret.out.cells[1][3].formatCalls) = 1

C1_StaticPrecedence ==
  (Generated /\ \A i, j \in DOMAIN args.fieldLabelMap :
                  i # j => args.fieldLabelMap[i].label # args.fieldLabelMap[j].label) =>
    \A c \in CellsOf :
      LET row == args.rows[c[1]]
          label == args.orderedHeaderLabels[c[2]]
          cell == ret.out.cells[c[1]][c[2]]
      IN /\ \A i \in DOMAIN args.fieldLabelMap :
              LET k == args.fieldLabelMap[i].key
              IN (args.fieldLabelMap[i].label = label /\ RowGet(row, k) # Undefined) =>
                   /\ ~cell.staticRead
                   /\ cell.staticCalls = <<>>
                   /\ (RowGet(row, k) = Null /\ label \notin DOMAIN args.rules.formatByHeader) =>
                        cell.text = <<QUOTE, QUOTE>>
         /\ cell.staticRead => label \in DOMAIN args.rules.staticByHeader

---------------------------------------------------------------------------
(* Properties of downloadCSV *)

\* the last native step that was awaited rejected
NativeThrew == nativeLog # <<>> /\ ~nativeLog[Len(nativeLog)].ok

\* open dialog, create write stream, write and close all resolved, in order
NativeCompleted ==
  nativeLog = [i \in DOMAIN NativeSteps |-> [step |-> NativeSteps[i], ok |-> TRUE]]

\* every statement of the fallback ran, in order
FallbackCompleted == dom.done = FallbackSteps

\* the user canceled the dialog, or permission was denied for lack of a user gesture
IsUserDecision(error) ==
  \/ error.name = "AbortError"
  \/ error.name = "NotAllowedError" /\ error.message = "gesture"

\* C5: when the native path throws a user cancel (AbortError) or a
\* missing-gesture permission denial, the call resolves false at once and the
\* fallback is not attempted: no object URL, no anchor, no click.
C5_CancelNoFallback ==
  (env.hasPicker /\ NativeThrew /\ IsUserDecision(err) /\ pc # "catch") =>
    /\ pc = "done"
    /\ result = "false"
    /\ dom = NoDom

\* a write that was refused for lack of a user gesture ended the call with false
C5_Witness ==
  /\ pc = "done"
  /\ NativeThrew
  /\ nativeLog[Len(nativeLog)].step = "write"
  /\ err = [name |-> "NotAllowedError", message |-> "gesture"]
  /\ result = "false"

\* C7: the promise resolves true exactly when the native path completed open
\* dialog, create write stream, write and close, or the fallback ran all of its
\* statements; it resolves false exactly when the native path threw a user
\* cancel / missing-gesture denial or the fallback threw.
C7_ResultMeaning ==
  /\ result = "true" <=> (NativeCompleted \/ FallbackCompleted)
  /\ result = "false" <=> ((NativeThrew /\ IsUserDecision(err) /\ pc # "catch") \/ dom.threw)
  /\ (pc = "done" /\ ~env.hasPicker /\ ~dom.threw) => result = "true"

\* without the native capability the anchor mechanism ran and the call resolved true
C7_Witness ==
  /\ pc = "done"
  /\ ~env.hasPicker
  /\ nativeLog = <<>>
  /\ FallbackCompleted
  /\ dom.clicks = 1
  /\ result = "true"

\* C6 as stated: a settled call attempted the fallback once exactly when the
\* native capability was absent or a native step failed with an error that is
\* not a user cancel / missing-gesture denial, and that error did not reach
\* the caller; never after the native path completed; no native step twice.
C6_Fallthrough ==
  pc = "done" =>
    /\ dom.attempts = IF ~env.hasPicker \/ (NativeThrew /\ ~IsUserDecision(err)) THEN 1 ELSE 0
    /\ (NativeThrew /\ ~IsUserDecision(err)) => result # "rejected"
    /\ NativeCompleted => dom.attempts = 0
    /\ \A i, j \in DOMAIN nativeLog : i # j => nativeLog[i].step # nativeLog[j].step

\* C8 as stated: whatever the environment does, the promise never rejects and
\* a settled call resolved to a boolean.
C8_NeverRejects ==
  /\ result # "rejected"
  /\ pc = "done" => result \in {"true", "false"}

\* C10 as stated: a settled call that created an object URL has revoked it
\* and has removed the anchor it appended.
C10_Cleanup ==
  (pc = "done" /\ dom.url # "none") =>
    /\ dom.url = "revoked"
    /\ dom.anchor # "attached"

==========================================================================
